---- MODULE Spec2Model ----
(***************************************************************************)
(* Scientific calculator (src/scientific_calculator.py).                   *)
(*                                                                         *)
(* The session state is st.session_state.expression (a Python str) and     *)
(* st.session_state.history (a list of str).  A str is modelled as the     *)
(* sequence of its code points; a code point outside ASCII is written by   *)
(* its "U+xxxx" name.  One action stands for one script run triggered by   *)
(* one widget: a keypad button, a function button, Calculate Integral,     *)
(* Calculate Derivative or Clear History.                                  *)
(***************************************************************************)
EXTENDS Integers, Sequences, FiniteSets, TLC

VARIABLES
    expression,    \* st.session_state.expression
    history,       \* st.session_state.history
    display_expr,  \* the text rendered in the display area
    op,            \* the latest script run: "=", "integral", "derivative",
                   \* "clear history", or "edit" for a key that edits the expression
    outcome,       \* how that handler ended: "none", "ok", "error", "uncaught"
    raised,        \* the exception class raised inside it, or "none"
    eval_expr,     \* the argument the '=' handler passed to safe_eval
    symbols,       \* safe_eval's local: the free symbols of the parsed expression
    args,          \* safe_eval's local: the keyword arguments of the call
    result         \* the handler's local: the value computed, or None

vars == <<expression, history, display_expr, op, outcome, raised,
          eval_expr, symbols, args, result>>

-----------------------------------------------------------------------------
(* Bounds of the model. *)

MaxLen == 4        \* Spec, HistorySpec: a key is accepted while its text fits
MaxHist == 1       \* Spec: entries the history may hold
MaxLog == 2        \* HistorySpec: entries the history may hold
MaxKeypadLen == 3  \* KeypadSpec: a key is accepted while its text fits
MaxKeypadHist == 1 \* KeypadSpec: entries the history may hold
MaxStr == 2        \* NormSpec: length of the strings rewritten

-----------------------------------------------------------------------------
(* Code points. *)

HeavyPlus == "U+2795"
HeavyMinus == "U+2796"
HeavyDivide == "U+2797"
HeavyMultiply == "U+2716"
VariationSelector == "U+FE0F"
GreekPi == "U+03C0"
MultiplicationSign == "U+00D7"
DivisionSign == "U+00F7"

NotCalled == <<"<not called>">>

-----------------------------------------------------------------------------
(* Python str operations. *)

Range(s) == {s[i] : i \in 1..Len(s)}

StartsWithAt(s, i, pat) ==
    /\ i + Len(pat) - 1 <= Len(s)
    /\ \A k \in 1..Len(pat) : s[i + k - 1] = pat[k]

RECURSIVE ReplaceFrom(_, _, _, _)
ReplaceFrom(s, i, pat, rep) ==
    IF i > Len(s) THEN <<>>
    ELSE IF StartsWithAt(s, i, pat)
         THEN rep \o ReplaceFrom(s, i + Len(pat), pat, rep)
         ELSE <<s[i]>> \o ReplaceFrom(s, i + 1, pat, rep)

\* s.replace(pat, rep) for a non-empty pat: the occurrences are found from the
\* left and do not overlap.
Replace(s, pat, rep) == ReplaceFrom(s, 1, pat, rep)

Contains(s, pat) == \E i \in 1..Len(s) : StartsWithAt(s, i, pat)

\* s[:-1]
DropLast(s) == IF Len(s) = 0 THEN <<>> ELSE SubSeq(s, 1, Len(s) - 1)

RECURSIVE ApplyRules(_, _)
ApplyRules(rules, s) ==
    IF rules = <<>> THEN s
    ELSE ApplyRules(Tail(rules), Replace(s, rules[1][1], rules[1][2]))

-----------------------------------------------------------------------------
(* transform_display and the rewriting done by the '=' handler. *)

DisplayRulesMinusSign ==
    << <<(<<HeavyPlus>>), (<<"+">>)>>,
       <<(<<HeavyMinus>>), (<<"U+2212">>)>>,
       <<(<<HeavyMultiply, VariationSelector>>), (<<MultiplicationSign>>)>>,
       <<(<<HeavyDivide>>), (<<DivisionSign>>)>> >>

DisplayRules ==
    << <<(<<HeavyPlus>>), (<<"+">>)>>,
       <<(<<HeavyMinus>>), (<<"-">>)>>,
       <<(<<HeavyMultiply, VariationSelector>>), (<<MultiplicationSign>>)>>,
       <<(<<HeavyDivide>>), (<<DivisionSign>>)>> >>

transform_display(e) == ApplyRules(DisplayRules, e)

NormRulesMultiplyAsCaret ==
    << <<(<<GreekPi>>), (<<"p", "i">>)>>,
       <<(<<HeavyPlus>>), (<<"+">>)>>,
       <<(<<HeavyMinus>>), (<<"-">>)>>,
       <<(<<HeavyDivide>>), (<<"/">>)>>,
       <<(<<HeavyMultiply, VariationSelector>>), (<<"^">>)>>,
       <<(<<"^">>), (<<"*", "*">>)>> >>

NormRules ==
    << <<(<<GreekPi>>), (<<"p", "i">>)>>,
       <<(<<HeavyPlus>>), (<<"+">>)>>,
       <<(<<HeavyMinus>>), (<<"-">>)>>,
       <<(<<HeavyDivide>>), (<<"/">>)>>,
       <<(<<HeavyMultiply, VariationSelector>>), (<<"*">>)>>,
       <<(<<"^">>), (<<"*", "*">>)>> >>

normalize(e) == ApplyRules(NormRules, e)

\* The text of the display area: the expression, or "0" when it is empty.
Display(e) == transform_display(IF e = <<>> THEN <<"0">> ELSE e)

-----------------------------------------------------------------------------
(* The registry of names handed to safe_eval. *)

allowed_funcs ==
    (<<"s", "i", "n">> :> "np.sin") @@
    (<<"c", "o", "s">> :> "np.cos") @@
    (<<"t", "a", "n">> :> "np.tan") @@
    (<<"a", "s", "i", "n">> :> "np.arcsin") @@
    (<<"a", "c", "o", "s">> :> "np.arccos") @@
    (<<"a", "t", "a", "n">> :> "np.arctan") @@
    (<<"s", "i", "n", "h">> :> "np.sinh") @@
    (<<"c", "o", "s", "h">> :> "np.cosh") @@
    (<<"t", "a", "n", "h">> :> "np.tanh") @@
    (<<"l", "o", "g">> :> "np.log10") @@
    (<<"l", "n">> :> "np.log") @@
    (<<"s", "q", "r", "t">> :> "np.sqrt") @@
    (<<"e", "x", "p">> :> "np.exp") @@
    (<<"p", "i">> :> "np.pi") @@
    (<<"e">> :> "np.e") @@
    (<<"a", "b", "s">> :> "np.abs") @@
    (<<"f", "a", "c", "t", "o", "r", "i", "a", "l">> :> "math.factorial")

\* the int 0 among the values of the registry, which are named by strings
Zero == "0"

\* local_dict.get(name, default)
DictGet(local_dict, name, default) ==
    IF name \in DOMAIN local_dict THEN local_dict[name] ELSE default

-----------------------------------------------------------------------------
(* Numbers and their text.  An int is kept exactly.  The digits of a float  *)
(* are not computed: a float is one of FloatReprs, the texts that stand for *)
(* what float.__str__ can give (a non-zero value and the falsy 0.0).        *)

Digits == {"0", "1", "2", "3", "4", "5", "6", "7", "8", "9"}

DigitChar(d) ==
    CASE d = 0 -> "0" [] d = 1 -> "1" [] d = 2 -> "2" [] d = 3 -> "3"
      [] d = 4 -> "4" [] d = 5 -> "5" [] d = 6 -> "6" [] d = 7 -> "7"
      [] d = 8 -> "8" [] d = 9 -> "9"

DigitValue(c) == CHOOSE d \in 0..9 : DigitChar(d) = c

RECURSIVE NatToStr(_)
NatToStr(n) ==
    IF n < 10 THEN <<DigitChar(n)>>
    ELSE NatToStr(n \div 10) \o <<DigitChar(n % 10)>>

IntToStr(n) == IF n < 0 THEN <<"-">> \o NatToStr(-n) ELSE NatToStr(n)

RECURSIVE StrToNat(_)
StrToNat(s) ==
    IF s = <<>> THEN 0
    ELSE 10 * StrToNat(DropLast(s)) + DigitValue(s[Len(s)])

FloatReprs == { <<"2", ".", "5">>, <<"0", ".", "0">> }

NoneValue == [kind |-> "None", n |-> 0, repr |-> <<>>]
IntValue(n) == [kind |-> "int", n |-> n, repr |-> <<>>]
FloatValue(r) == [kind |-> "float", n |-> 0, repr |-> r]
Floats == {FloatValue(r) : r \in FloatReprs}

\* str(value), also the text an f-string gives for it
Str(v) == IF v.kind = "int" THEN IntToStr(v.n) ELSE v.repr

\* bool(value)
Truthy(v) == IF v.kind = "int" THEN v.n # 0 ELSE v.repr # <<"0", ".", "0">>

-----------------------------------------------------------------------------
(* sympify: the text is cut into tokens as Python's tokenizer cuts it, and  *)
(* the tokens are accepted when they form an expression.                    *)

Letters ==
    {"a", "b", "c", "d", "e", "f", "g", "h", "i", "j", "k", "l", "m", "n",
     "o", "p", "q", "r", "s", "t", "u", "v", "w", "x", "y", "z", "_", GreekPi}

\* the last index j >= i - 1 with s[i..j] made of members of set
RECURSIVE RunEnd(_, _, _)
RunEnd(s, i, set) ==
    IF i <= Len(s) /\ s[i] \in set THEN RunEnd(s, i + 1, set) ELSE i - 1

IsDigitAt(s, i) == i <= Len(s) /\ s[i] \in Digits

\* the end of the number literal that starts at i: digits, a fraction, an
\* exponent whose digits are present
NumberEnd(s, i) ==
    LET intEnd == RunEnd(s, i, Digits)
        fracEnd == IF intEnd + 1 <= Len(s) /\ s[intEnd + 1] = "."
                   THEN RunEnd(s, intEnd + 2, Digits) ELSE intEnd
        expAt == fracEnd + 1
        signed == expAt + 1 <= Len(s) /\ s[expAt + 1] \in {"+", "-"}
        digitsAt == IF signed THEN expAt + 2 ELSE expAt + 1
    IN  IF expAt <= Len(s) /\ s[expAt] \in {"e", "E"} /\ IsDigitAt(s, digitsAt)
        THEN RunEnd(s, digitsAt, Digits)
        ELSE fracEnd

\* a decimal integer literal is all zeros or starts with a non-zero digit
NumberToken(text) ==
    IF Range(text) \subseteq Digits
    THEN IF text[1] # "0" \/ Range(text) = {"0"}
         THEN [t |-> "int", text |-> text]
         ELSE [t |-> "bad", text |-> text]
    ELSE [t |-> "float", text |-> text]

RECURSIVE Tokenize(_, _)
Tokenize(s, i) ==
    IF i > Len(s) THEN <<>>
    ELSE IF s[i] \in Digits \/ (s[i] = "." /\ IsDigitAt(s, i + 1))
    THEN LET j == NumberEnd(s, i)
         IN  <<NumberToken(SubSeq(s, i, j))>> \o Tokenize(s, j + 1)
    ELSE IF s[i] \in Letters
    THEN LET j == RunEnd(s, i, Letters \cup Digits)
         IN  <<[t |-> "name", text |-> SubSeq(s, i, j)]>> \o Tokenize(s, j + 1)
    ELSE IF StartsWithAt(s, i, <<"*", "*">>)
    THEN <<[t |-> "op", text |-> <<"*", "*">>]>> \o Tokenize(s, i + 2)
    ELSE IF s[i] \in {"*", "/", "+", "-"}
    THEN <<[t |-> "op", text |-> <<s[i]>>]>> \o Tokenize(s, i + 1)
    ELSE <<[t |-> "bad", text |-> <<s[i]>>]>> \o Tokenize(s, i + 1)

\* The names sympify resolves by itself: the constant pi, and the functions.
PiName == <<"p", "i">>
FunctionNames == (DOMAIN allowed_funcs) \ {PiName, <<"e">>}

IsAtom(tok) == tok.t \in {"int", "float", "name"}
IsSign(tok) == tok.t = "op" /\ tok.text \in {<<"+">>, <<"-">>}

\* operands separated by binary operators, each operand after any number of
\* signs; expecting is TRUE where an operand has to come
RECURSIVE WellFormed(_, _, _)
WellFormed(toks, i, expecting) ==
    IF i > Len(toks) THEN ~expecting
    ELSE IF expecting
    THEN IF IsAtom(toks[i]) THEN WellFormed(toks, i + 1, FALSE)
         ELSE IsSign(toks[i]) /\ WellFormed(toks, i + 1, TRUE)
    ELSE toks[i].t = "op" /\ WellFormed(toks, i + 1, TRUE)

NamesOf(toks) == {toks[i].text : i \in {k \in 1..Len(toks) : toks[k].t = "name"}}

\* sympify(text).  A text that is no expression raises SympifyError (the
\* tokenizer's and the parser's errors are wrapped in it).  A function that is
\* an operand of an operator raises TypeError while the text is evaluated.
\* The keys of the model give no ")": every "(" is left open, which is an
\* error of the tokenizer, so "(" is kept among the bad tokens.
sympify(text) ==
    LET toks == Tokenize(text, 1)
    IN  IF \/ \E i \in 1..Len(toks) : toks[i].t = "bad"
           \/ ~WellFormed(toks, 1, TRUE)
        THEN [raises |-> "SympifyError", toks |-> <<>>]
        ELSE IF Len(toks) > 1 /\ NamesOf(toks) \cap FunctionNames # {}
        THEN [raises |-> "TypeError", toks |-> <<>>]
        ELSE [raises |-> "none", toks |-> toks]

-----------------------------------------------------------------------------
(* free_symbols, lambdify and the call of the function it builds. *)

IsLiteral(tok) == tok.t \in {"int", "float"}

\* expr.free_symbols.  Every name that sympify does not resolve is a Symbol.
\* sympy cancels while it builds an expression (0*x is 0, 1**x is 1), so next
\* to a number literal any of the symbols may be gone.
free_symbols(toks) ==
    LET named == NamesOf(toks) \ ({PiName} \cup FunctionNames)
    IN  IF Len(toks) > 1 /\ \E i \in 1..Len(toks) : IsLiteral(toks[i])
        THEN SUBSET named
        ELSE {named}

\* lambdify(symbols, expr, modules=[local_dict, 'numpy']): a function class
\* is no expression and lambdify raises TypeError on it.
lambdify(toks) ==
    IF NamesOf(toks) \cap FunctionNames # {} THEN "TypeError" ELSE "none"

Value(v) == [kind |-> "value", value |-> v, exc |-> "none"]
Raise(e) == [kind |-> "raise", value |-> NoneValue, exc |-> e]

PowCount(toks) ==
    Cardinality({i \in 1..Len(toks) : toks[i].text = <<"*", "*">> /\ toks[i].t = "op"})

\* func(**args).  One operand alone is computed: an int literal is its value,
\* a symbol is the value bound to it (0, or the float of the registry), pi and
\* a float literal are floats.  The arithmetic of an expression with operators
\* is not computed: its value is any int or float, a division may find a zero
\* divisor and a tower of powers may overflow.
Call(toks, kwargs) ==
    IF Len(toks) = 1
    THEN LET tok == toks[1]
         IN  IF tok.t = "int" THEN {Value(IntValue(StrToNat(tok.text)))}
             ELSE IF tok.t = "float" \/ tok.text = PiName
             THEN {Value(f) : f \in Floats}
             ELSE IF kwargs[tok.text] = Zero THEN {Value(IntValue(0))}
             ELSE {Value(f) : f \in Floats}
    ELSE {Value(v) : v \in {IntValue(0)} \cup Floats}
         \cup (IF \E i \in 1..Len(toks) : toks[i].text = <<"/">>
               THEN {Raise("ZeroDivisionError")} ELSE {})
         \cup (IF PowCount(toks) >= 3 THEN {Raise("OverflowError")} ELSE {})

-----------------------------------------------------------------------------
(* safe_eval *)

SafeEvalExcept == {"SympifyError", "NameError", "TypeError", "SyntaxError"}

\* How a run of safe_eval ends: ret is the value returned (None after
\* st.error), caught the exception the except clause took, escaped the
\* exception that left the function.
SafeEvalEnd(ret, caught, escaped, syms, kwargs) ==
    [ret |-> ret, caught |-> caught, escaped |-> escaped,
     symbols |-> syms, args |-> kwargs]

SafeEvalRaise(e, syms, kwargs) ==
    IF e \in SafeEvalExcept
    THEN SafeEvalEnd(NoneValue, e, "none", syms, kwargs)
    ELSE SafeEvalEnd(NoneValue, "none", e, syms, kwargs)

BindUnknownAsOne(local_dict, syms) == [s \in syms |-> DictGet(local_dict, s, "1")]

\* args = {str(s): local_dict.get(str(s), 0) for s in symbols}
Bind(local_dict, syms) == [s \in syms |-> DictGet(local_dict, s, Zero)]

safe_eval(expr_str, local_dict) ==
    LET sympy_expr == sympify(expr_str)
    IN  IF sympy_expr.raises # "none"
        THEN {SafeEvalRaise(sympy_expr.raises, {}, <<>>)}
        ELSE IF lambdify(sympy_expr.toks) # "none"
        THEN {SafeEvalRaise(lambdify(sympy_expr.toks), {}, <<>>)}
        ELSE UNION {
            LET kwargs == Bind(local_dict, syms)
            IN  {IF r.kind = "raise"
                 THEN SafeEvalRaise(r.exc, syms, kwargs)
                 ELSE SafeEvalEnd(r.value, "none", "none", syms, kwargs)
                 : r \in Call(sympy_expr.toks, kwargs)}
            : syms \in free_symbols(sympy_expr.toks)}

-----------------------------------------------------------------------------
(* The widgets of the model. *)

MultiplyLabel == <<HeavyMultiply, VariationSelector>>

\* the keys of the main keypad that add their label to the expression
buttons == {MultiplyLabel}

\* the buttons of the function expander: all of the model, and those of Spec
func_buttons ==
    { <<"l", "n", "(", ")">>, <<GreekPi>>, <<"e">>, <<"n", "!">>, <<"^">> }
spec_func_buttons == { <<"e">> }

\* what the text inputs and number inputs of the calculus section may hold
VariableTexts == {"x", ""}
IntegrandTexts == {"x**2", "2+", "foo(x)"}
DerivativeTexts == {"sin(x)", "2+", "[1,2]"}
LowerLimits == {"0.0"}
UpperLimits == {"1.0"}
Points == {"0.0"}

-----------------------------------------------------------------------------
(* The state after the first script run. *)

Init ==
    /\ expression = <<>>
    /\ history = <<>>
    /\ display_expr = Display(<<>>)
    /\ op = "start"
    /\ outcome = "none"
    /\ raised = "none"
    /\ eval_expr = NotCalled
    /\ symbols = {}
    /\ args = <<>>
    /\ result = NoneValue

\* a handler that calls neither safe_eval nor the library
NoEvaluation ==
    /\ outcome' = "none"
    /\ raised' = "none"
    /\ eval_expr' = NotCalled
    /\ symbols' = {}
    /\ args' = <<>>
    /\ result' = NoneValue

-----------------------------------------------------------------------------
(* The main keypad. *)

ResultIsTruthy(r) == r.kind # "None" /\ Truthy(r)
ResultIsAnything(r) == TRUE

\* result is not None
ResultIsNotNone(r) == r.kind # "None"

ExpressionAlwaysSet(e) == TRUE

\* if st.session_state.expression:
ExpressionIsSet(e) == e # <<>>

\* f"{transform_display(st.session_state.expression)} = {result}"
EqualsEntry(e, r) == transform_display(e) \o <<" ", "=", " ">> \o Str(r)

PressEquals(cap) ==
    /\ op' = "="
    /\ IF ExpressionIsSet(expression)
       THEN /\ eval_expr' = normalize(expression)
            /\ \E end \in safe_eval(normalize(expression), allowed_funcs) :
                 /\ symbols' = end.symbols
                 /\ args' = end.args
                 /\ result' = end.ret
                 /\ raised' = IF end.escaped # "none" THEN end.escaped ELSE end.caught
                 /\ outcome' = IF end.escaped # "none" THEN "uncaught"
                               ELSE IF end.caught # "none" THEN "error"
                               ELSE "ok"
                 /\ IF end.escaped = "none" /\ ResultIsNotNone(end.ret)
                    THEN /\ Len(history) < cap
                         /\ history' = Append(history, EqualsEntry(expression, end.ret))
                         /\ expression' = Str(end.ret)
                    ELSE UNCHANGED <<expression, history>>
       ELSE /\ NoEvaluation
            /\ UNCHANGED <<expression, history>>
    /\ display_expr' = Display(expression')

PressClear ==
    /\ op' = "edit"
    /\ expression' = <<>>
    /\ UNCHANGED history
    /\ NoEvaluation
    /\ display_expr' = Display(expression')

PressBackspace ==
    /\ op' = "edit"
    /\ expression' = DropLast(expression)
    /\ UNCHANGED history
    /\ NoEvaluation
    /\ display_expr' = Display(expression')

PressKey(label, room) ==
    /\ Len(expression) + Len(label) <= room
    /\ op' = "edit"
    /\ expression' = expression \o label
    /\ UNCHANGED history
    /\ NoEvaluation
    /\ display_expr' = Display(expression')

-----------------------------------------------------------------------------
(* The function buttons. *)

FactorialText == <<"f", "a", "c", "t", "o", "r", "i", "a", "l", "(">>

\* the text a function button adds to the expression
InsertText(label) ==
    IF label = <<GreekPi>> THEN <<GreekPi>>
    ELSE IF label = <<"n", "!">> THEN FactorialText
    ELSE IF Contains(label, <<"(", ")">>) THEN DropLast(label)
    ELSE label

PressFunction(label, room) ==
    /\ Len(expression) + Len(InsertText(label)) <= room
    /\ op' = "edit"
    /\ expression' = expression \o InsertText(label)
    /\ UNCHANGED history
    /\ NoEvaluation
    /\ display_expr' = Display(expression')

-----------------------------------------------------------------------------
(* The calculus section.  The texts of its inputs are kept whole, and what  *)
(* the library does with each of them is written out.                       *)

\* sympify of the text of an input: what it raises and what it returns
SympifyText(text) ==
    CASE text = "" -> [raises |-> "SympifyError", form |-> "none"]
      [] text = "2+" -> [raises |-> "SympifyError", form |-> "none"]
      [] text = "x" -> [raises |-> "none", form |-> "symbol"]
      [] text = "x**2" -> [raises |-> "none", form |-> "expression"]
      [] text = "sin(x)" -> [raises |-> "none", form |-> "expression"]
      [] text = "foo(x)" -> [raises |-> "none", form |-> "undefined function"]
      [] text = "[1,2]" -> [raises |-> "none", form |-> "list"]

\* integrate.quad(f, lower, upper) calls f: a function numpy does not have
\* is a NameError there
Quad(form) == IF form = "undefined function" THEN "NameError" ELSE "none"

\* sympy_func.diff(x_sym): a Python list has no diff
Diff(form) == IF form = "list" THEN "AttributeError" ELSE "none"

CalculusExcept == {"SympifyError", "TypeError", "ValueError"}

\* the first exception of the try block of Calculate Integral, or "none"
IntegralRaises(func_str_int, variable_int) ==
    LET x == SympifyText(variable_int)
        sympy_func == SympifyText(func_str_int)
    IN  IF x.raises # "none" THEN x.raises
        ELSE IF sympy_func.raises # "none" THEN sympy_func.raises
        ELSE Quad(sympy_func.form)

\* the first exception of the try block of Calculate Derivative, or "none"
DerivativeRaises(func_str_diff, variable_diff) ==
    LET x_sym == SympifyText(variable_diff)
        sympy_func == SympifyText(func_str_diff)
    IN  IF x_sym.raises # "none" THEN x_sym.raises
        ELSE IF sympy_func.raises # "none" THEN sympy_func.raises
        ELSE Diff(sympy_func.form)

\* f"∫({func_str_int}) from {lower_limit} to {upper_limit} = {result}"
IntegralEntry(func_str_int, lower_limit, upper_limit, r) ==
    <<"U+222B(", func_str_int, ") from ", lower_limit, " to ", upper_limit, " = ">>
    \o Str(r)

\* f"d/d{x_sym}({func_str_diff}) at {eval_point} = {result}"
DerivativeEntry(x_sym, func_str_diff, eval_point, r) ==
    <<"d/d", x_sym, "(", func_str_diff, ") at ", eval_point, " = ">> \o Str(r)

\* both handlers, once the try block has run: e is what it raised, and
\* entry(r) the text appended for the result r
CalculusEnd(e, entry, cap) ==
    /\ eval_expr' = NotCalled
    /\ symbols' = {}
    /\ args' = <<>>
    /\ UNCHANGED expression
    /\ display_expr' = Display(expression')
    /\ IF e = "none"
       THEN /\ Len(history) < cap
            /\ outcome' = "ok"
            /\ raised' = "none"
            /\ \E r \in Floats :
                 /\ result' = r
                 /\ history' = Append(history, entry[r])
       ELSE /\ outcome' = IF e \in CalculusExcept THEN "error" ELSE "uncaught"
            /\ raised' = e
            /\ result' = NoneValue
            /\ UNCHANGED history

CalculateIntegral(func_str_int, variable_int, lower_limit, upper_limit, cap) ==
    /\ op' = "integral"
    /\ LET entry == [r \in Floats |-> IntegralEntry(func_str_int, lower_limit, upper_limit, r)]
       IN  CalculusEnd(IntegralRaises(func_str_int, variable_int), entry, cap)

CalculateDerivative(func_str_diff, variable_diff, eval_point, cap) ==
    /\ op' = "derivative"
    /\ LET entry == [r \in Floats |-> DerivativeEntry(variable_diff, func_str_diff, eval_point, r)]
       IN  CalculusEnd(DerivativeRaises(func_str_diff, variable_diff), entry, cap)

-----------------------------------------------------------------------------
(* The sidebar. *)

ClearedButLast(h) == DropLast(h)

\* st.session_state.history = []
Cleared(h) == <<>>

\* the button is drawn only under a history that has entries
ClearHistory ==
    /\ history # <<>>
    /\ op' = "clear history"
    /\ history' = Cleared(history)
    /\ UNCHANGED expression
    /\ NoEvaluation
    /\ display_expr' = Display(expression')

-----------------------------------------------------------------------------
(* Spec: the keypad with the keys "e" and the multiplication sign. *)

Next ==
    \/ PressEquals(MaxHist)
    \/ PressClear
    \/ PressBackspace
    \/ \E label \in buttons : PressKey(label, MaxLen)
    \/ \E label \in spec_func_buttons : PressFunction(label, MaxLen)
    \/ ClearHistory

Spec == Init /\ [][Next]_vars

(* HistorySpec: every operation that writes the history. *)

NextHistory ==
    \/ PressEquals(MaxLog)
    \/ PressClear
    \/ PressBackspace
    \/ \E label \in spec_func_buttons : PressFunction(label, MaxLen)
    \/ \E f \in IntegrandTexts, v \in VariableTexts, a \in LowerLimits, b \in UpperLimits :
         CalculateIntegral(f, v, a, b, MaxLog)
    \/ \E f \in DerivativeTexts, v \in VariableTexts, x \in Points :
         CalculateDerivative(f, v, x, MaxLog)
    \/ ClearHistory

HistorySpec == Init /\ [][NextHistory]_vars

(* KeypadSpec: the keypad with every function button of the model. *)

NextKeypad ==
    \/ PressEquals(MaxKeypadHist)
    \/ PressClear
    \/ PressBackspace
    \/ \E label \in buttons : PressKey(label, MaxKeypadLen)
    \/ \E label \in func_buttons : PressFunction(label, MaxKeypadLen)
    \/ ClearHistory

KeypadSpec == Init /\ [][NextKeypad]_vars

(* NormSpec: transform_display and the rewriting of the '=' handler, applied *)
(* to every string of at most MaxStr code points.                           *)

NormAlphabet ==
    {HeavyPlus, HeavyMinus, HeavyMultiply, VariationSelector, HeavyDivide,
     GreekPi, "^", "1"}

NormInputs == UNION {[1..n -> NormAlphabet] : n \in 0..MaxStr}

NormInit ==
    /\ expression \in NormInputs
    /\ history = <<>>
    /\ display_expr = NotCalled
    /\ op = "start"
    /\ outcome = "none"
    /\ raised = "none"
    /\ eval_expr = NotCalled
    /\ symbols = {}
    /\ args = <<>>
    /\ result = NoneValue

NormFrame == UNCHANGED <<expression, history, outcome, raised, symbols, args, result>>

\* display_expr = transform_display(display_expr)
ToDisplay ==
    /\ op = "start"
    /\ op' = "to_display"
    /\ display_expr' = transform_display(expression)
    /\ UNCHANGED eval_expr
    /\ NormFrame

\* the replace chain of the '=' handler on the expression
Normalize ==
    /\ op = "start"
    /\ op' = "normalize"
    /\ eval_expr' = normalize(expression)
    /\ UNCHANGED display_expr
    /\ NormFrame

\* the same chain on the displayed text
NormalizeDisplay ==
    /\ op = "to_display"
    /\ op' = "round trip"
    /\ eval_expr' = normalize(display_expr)
    /\ UNCHANGED display_expr
    /\ NormFrame

NormNext == ToDisplay \/ Normalize \/ NormalizeDisplay

NormSpec == NormInit /\ [][NormNext]_vars

-----------------------------------------------------------------------------
(* Properties. *)

Operations == {"=", "integral", "derivative"}
Failed(o) == o \in {"error", "uncaught"}

\* C1: an operation ('=', Calculate Integral, Calculate Derivative) that fails
\* leaves the expression and the history as they were, and an operation adds
\* an entry to the history only when it succeeded.
C1_FailureLeavesState ==
    [][op' \in Operations =>
         /\ Failed(outcome') => (expression' = expression /\ history' = history)
         /\ Len(history') > Len(history) => outcome' = "ok"]_vars

\* a failed '=' on an expression, under a history that has an entry
C1_Witness ==
    /\ op = "="
    /\ outcome = "error"
    /\ expression # <<>>
    /\ history # <<>>

\* C2: no exception leaves safe_eval, the integration handler or the
\* differentiation handler uncaught.
C2_NoUncaughtFault == outcome # "uncaught"

PresentationCodePoints ==
    {HeavyPlus, HeavyMinus, HeavyDivide, HeavyMultiply, VariationSelector,
     GreekPi, "^"}

\* C3: the string the '=' handler passes to safe_eval holds no presentation
\* token: no code point of an emoji operator, no pi glyph, no caret.
C3_NoPresentationToken ==
    eval_expr # NotCalled => Range(eval_expr) \cap PresentationCodePoints = {}

\* the identifiers of a text that the registry does not have
UnknownNames(text) == NamesOf(Tokenize(text, 1)) \ DOMAIN allowed_funcs

\* C4: an expression that names a symbol outside the registry evaluates to an
\* error outcome and never to a value.
C4_UnknownSymbolRejected ==
    (op = "=" /\ eval_expr # NotCalled /\ UnknownNames(eval_expr) # {})
        => (outcome = "error" /\ result = NoneValue)

\* C5 as stated: rewriting the displayed text gives what rewriting the
\* expression gives, for each of the four operator glyphs.
C5_RoundTrip == op = "round trip" => eval_expr = normalize(expression)

HasMultiplyOrDivide(e) ==
    Contains(e, MultiplyLabel) \/ Contains(e, <<HeavyDivide>>)

\* C5 amended: rewriting the displayed text gives what rewriting the
\* expression gives exactly when the expression holds neither the
\* multiplication label nor the division glyph; the addition and subtraction
\* glyphs make the round trip.
C5_RoundTripPlusMinus ==
    op = "round trip" =>
        (eval_expr = normalize(expression) <=> ~HasMultiplyOrDivide(expression))

\* the round trip made on a string with an addition or subtraction glyph
C5_Witness ==
    /\ op = "round trip"
    /\ Range(expression) \cap {HeavyPlus, HeavyMinus} # {}
    /\ eval_expr = normalize(expression)

RuleOrders == Permutations(1..Len(NormRules))

\* C6: the six replacements give the same string in every order.
C6_OrderIndependent ==
    op = "normalize" =>
        \A order \in RuleOrders :
            ApplyRules([i \in 1..Len(NormRules) |-> NormRules[order[i]]], expression)
                = eval_expr

\* a string rewritten by two of the rules
C6_Witness ==
    /\ op = "normalize"
    /\ expression = <<GreekPi, "^">>
    /\ eval_expr = <<"p", "i", "*", "*">>

IsPrefix(h, g) == Len(h) <= Len(g) /\ SubSeq(g, 1, Len(h)) = h

\* C7: a step leaves the history as it was, adds one entry at its end, or
\* empties it.
C7_AppendOnly ==
    [][\/ history' = history
       \/ Len(history') = Len(history) + 1 /\ IsPrefix(history, history')
       \/ history' = <<>>]_vars

\* an entry added after another one
C7_Witness ==
    /\ op \in Operations
    /\ outcome = "ok"
    /\ Len(history) = 2

\* a name on its own that the registry does not have
LoneUnknownSymbol(text) ==
    /\ text # NotCalled
    /\ text # <<>>
    /\ text[1] \in Letters
    /\ Range(text) \subseteq Letters \cup Digits
    /\ text \notin DOMAIN allowed_funcs

\* C8: safe_eval binds every free symbol to the registry's value for its name
\* when there is one and to 0 otherwise; a symbol the registry does not have
\* gives a value, the one computed with 0, and no error.
C8_Bindings ==
    op = "=" =>
        /\ DOMAIN args = symbols
        /\ \A s \in symbols :
             args[s] = IF s \in DOMAIN allowed_funcs THEN allowed_funcs[s] ELSE Zero
        /\ eval_expr = <<"e">> => symbols = {<<"e">>}
        /\ LoneUnknownSymbol(eval_expr) =>
             /\ symbols = {eval_expr}
             /\ outcome = "ok"
             /\ result = IntValue(0)

\* '=' on "ee": the symbol is bound to 0 and the value is 0
C8_Witness ==
    /\ op = "="
    /\ eval_expr = <<"e", "e">>
    /\ args = (<<"e", "e">> :> Zero)
    /\ outcome = "ok"
    /\ result = IntValue(0)

C10_EqualsOnEmpty ==
    [][(op' = "=" /\ expression = <<>>) =>
         /\ eval_expr' = NotCalled
         /\ outcome' = "none"
         /\ expression' = expression
         /\ history' = history]_vars

\* '=' pressed on the empty expression after 'C', under a history with an entry
C10_Witness ==
    /\ op = "="
    /\ expression = <<>>
    /\ eval_expr = NotCalled
    /\ history # <<>>

====
